---- MODULE Spec2Model ----
(***************************************************************************)
(* A model of VisdomHQ/scrapper:                                           *)
(*   - the crawl loop of WebsiteScraper.scrape_website (scraper.py) with   *)
(*     the URL functions of url_processor.py;                              *)
(*   - the upload run of upload_to_rag.py and the retry run of             *)
(*     retry_failed_uploads.py with the history and failure files.         *)
(* A text (URL, href) is a sequence of one-character strings, so that the  *)
(* URL functions are computed on the characters as the code computes them. *)
(***************************************************************************)
EXTENDS Integers, Sequences, FiniteSets, TLC

\* ------------------------------------------------------------- bounds
\* max_workers is drawn from 1..MaxWorkers
MaxWorkers == 2
\* max_pages is drawn from 0..MaxPagesCap (0 = unlimited)
MaxPagesCap == 2
\* a fetched page holds at most MaxLinks <a href> elements
MaxLinks == 2
\* and at most MaxSrcs src attributes and CSS url(...) references
MaxSrcs == 1

\* ------------------------------------------------------------- texts
Range(s) == {s[i] : i \in 1..Len(s)}

StartsWith(s, p) == Len(s) >= Len(p) /\ SubSeq(s, 1, Len(p)) = p

EndsWith(s, p) == Len(s) >= Len(p) /\ SubSeq(s, Len(s) - Len(p) + 1, Len(s)) = p

\* Python's `p in s` for strings
Contains(s, p) == \E i \in 1..(Len(s) - Len(p) + 1) : SubSeq(s, i, i + Len(p) - 1) = p

\* str.find(c): the first index of character c in s, 0 when absent
Find(s, c) ==
    IF c \in Range(s)
    THEN CHOOSE i \in 1..Len(s) : s[i] = c /\ \A j \in 1..(i - 1) : s[j] # c
    ELSE 0

\* the first index of s, from position `from`, that holds one of `cs`; Len(s)+1 when none
FindAny(s, cs, from) ==
    IF \E i \in from..Len(s) : s[i] \in cs
    THEN CHOOSE i \in from..Len(s) : s[i] \in cs /\ \A j \in from..(i - 1) : s[j] \notin cs
    ELSE Len(s) + 1

\* str.rstrip('/')
RECURSIVE rstrip_slash(_)
rstrip_slash(s) ==
    IF s # <<>> /\ s[Len(s)] = "/" THEN rstrip_slash(SubSeq(s, 1, Len(s) - 1)) ELSE s

LowerChar(c) ==
    CASE c = "P" -> "p"
      [] c = "D" -> "d"
      [] c = "F" -> "f"
      [] OTHER -> c

\* a conversion that keeps the letter case
keep_case(s) == s

\* str.lower()
lower(s) == [i \in 1..Len(s) |-> LowerChar(s[i])]

Letters == {"a", "b", "c", "d", "e", "f", "h", "i", "l", "m", "o", "p", "r", "s", "t",
            "u", "x", "P", "D", "F"}

\* the text before, and after, the first character c of s
Before(s, c) == IF Find(s, c) > 0 THEN SubSeq(s, 1, Find(s, c) - 1) ELSE s

After(s, c) == IF Find(s, c) > 0 THEN SubSeq(s, Find(s, c) + 1, Len(s)) ELSE <<>>

\* urlparse: the URL starts with a scheme (letters up to the first ":")
has_scheme(url) ==
    Find(url, ":") > 1 /\ \A j \in 1..(Find(url, ":") - 1) : url[j] \in Letters

\* urlparse: the rest starts with a network location ("//" up to "/", "?" or "#")
has_netloc(rest) == StartsWith(rest, <<"/", "/">>)

\* urlparse: the schemes of urllib.parse.uses_params that the texts can spell
uses_params ==
    {<<>>,
     <<"h", "t", "t", "p">>,
     <<"h", "t", "t", "p", "s">>,
     <<"f", "t", "p">>,
     <<"s", "f", "t", "p">>,
     <<"s", "h", "t", "t", "p">>,
     <<"s", "i", "p">>,
     <<"s", "i", "p", "s">>,
     <<"t", "e", "l">>,
     <<"h", "d", "l">>,
     <<"i", "m", "a", "p">>}

\* urlparse's _splitparams: the index of the ";" that starts the parameters
\* of the last path segment, Len(path)+1 when it has none
params_at(path) ==
    IF "/" \in Range(path)
    THEN FindAny(path, {";"},
                 CHOOSE i \in 1..Len(path) :
                     path[i] = "/" /\ \A j \in (i + 1)..Len(path) : path[j] # "/")
    ELSE FindAny(path, {";"}, 1)

\* urlparse: the path without its parameters, for a scheme that uses them
without_params(scheme, path) ==
    IF scheme \in uses_params THEN SubSeq(path, 1, params_at(path) - 1) ELSE path

\* urlparse: path, query and fragment of what follows the network location
split_tail(scheme, netloc, rest) ==
    [scheme |-> scheme, netloc |-> netloc,
     path |-> without_params(scheme, Before(Before(rest, "#"), "?")),
     query |-> After(Before(rest, "#"), "?"),
     fragment |-> After(rest, "#")]

\* urlparse: the network location of what follows the scheme
split_netloc(scheme, rest) ==
    IF has_netloc(rest)
    THEN split_tail(scheme,
                    SubSeq(rest, 3, FindAny(rest, {"/", "?", "#"}, 3) - 1),
                    SubSeq(rest, FindAny(rest, {"/", "?", "#"}, 3), Len(rest)))
    ELSE split_tail(scheme, <<>>, rest)

\* urllib.parse.urlparse: scheme, netloc, path, query, fragment
urlparse(url) ==
    IF has_scheme(url)
    THEN split_netloc(lower(Before(url, ":")), After(url, ":"))
    ELSE split_netloc(<<>>, url)

\* url_processor.validate_url
validate_url(url) ==
    LET result == urlparse(url)
    IN result.scheme # <<>> /\ result.netloc # <<>>

\* normalize_url: "path = parsed.path.rstrip('/'); if not path: path = '/'"
normalized_path(path) == IF rstrip_slash(path) = <<>> THEN <<"/">> ELSE rstrip_slash(path)

\* url_processor.normalize_url
normalize_url(url) ==
    LET parsed == urlparse(url)
    IN parsed.scheme \o <<":", "/", "/">> \o parsed.netloc \o normalized_path(parsed.path)

\* a domain test that every URL passes
is_any_domain(url, base_url) == TRUE

\* url_processor.is_same_domain
is_same_domain(url, base_url) == urlparse(url).netloc = urlparse(base_url).netloc

\* url_processor.is_downloadable_file: the list document_extensions
document_extensions ==
    {<<".", "p", "d", "f">>,
     <<".", "d", "o", "c">>,
     <<".", "d", "o", "c", "x">>,
     <<".", "p", "p", "t">>,
     <<".", "p", "p", "t", "x">>,
     <<".", "x", "l", "s">>,
     <<".", "x", "l", "s", "x">>,
     <<".", "c", "s", "v">>,
     <<".", "o", "d", "t">>,
     <<".", "o", "d", "s">>,
     <<".", "o", "d", "p">>,
     <<".", "r", "t", "f">>,
     <<".", "t", "x", "t">>,
     <<".", "j", "s", "o", "n">>,
     <<".", "x", "m", "l">>}

\* the text before the first "?" (str.split('?')[0])
BeforeQuery(s) == Before(s, "?")

kw_download == <<"d", "o", "w", "n", "l", "o", "a", "d">>
kw_document == <<"d", "o", "c", "u", "m", "e", "n", "t">>
kw_file == <<"f", "i", "l", "e">>
kw_pdf == <<"p", "d", "f">>
kw_doc == <<"d", "o", "c">>
kw_excel == <<"e", "x", "c", "e", "l">>
kw_filename_eq == <<"f", "i", "l", "e", "n", "a", "m", "e", "=">>
kw_file_eq == <<"f", "i", "l", "e", "=">>

\* url_processor.is_downloadable_file
is_downloadable_file(url) ==
    LET path == lower(urlparse(url).path)
        low == lower(url)
    IN \/ \E ext \in document_extensions : EndsWith(path, ext)
       \/ /\ "?" \in Range(url)
          /\ \E ext \in document_extensions : EndsWith(BeforeQuery(path), ext)
       \/ /\ Contains(low, kw_download) \/ Contains(low, kw_document) \/ Contains(low, kw_file)
          /\ \/ \E ext \in document_extensions : Contains(low, ext)
             \/ Contains(low, kw_pdf) \/ Contains(low, kw_doc) \/ Contains(low, kw_excel)
             \/ /\ Contains(low, kw_filename_eq) \/ Contains(low, kw_file_eq)
                /\ \E ext \in document_extensions : Contains(low, ext)

\* ------------------------------------------------------------- the site

\* urljoin: the directory of the base path (up to its last "/")
base_dir(path) ==
    IF "/" \in Range(path)
    THEN SubSeq(path, 1, CHOOSE i \in 1..Len(path) :
                             path[i] = "/" /\ \A j \in (i + 1)..Len(path) : path[j] # "/")
    ELSE <<"/">>

\* urljoin: the reference resolved against the parsed base
join_parsed(b, ref) ==
    IF has_scheme(ref) THEN ref
    ELSE IF StartsWith(ref, <<"/">>) THEN b.scheme \o <<":", "/", "/">> \o b.netloc \o ref
    ELSE b.scheme \o <<":", "/", "/">> \o b.netloc \o base_dir(b.path) \o ref

\* urllib.parse.urljoin for the reference forms of Hrefs: an absolute URL, a
\* root-relative path, a path relative to the directory of the base path
urljoin(base_url, ref) == join_parsed(urlparse(base_url), ref)

\* the href attributes a fetched page may hold in its <a> elements
Hrefs ==
    {<<"/">>,
     <<"/", "a", "b", "o", "u", "t", "/">>,
     <<"/", "d", "o", "c", "s", "?", "p">>,
     <<"t", "e", "a", "m">>,
     <<"r", ".", "p", "d", "f", "?", "v">>,
     <<"h", "t", "t", "p", ":", "/", "/", "o", ".", "t", "/", "x">>,
     <<"#", "t", "o", "p">>}

\* the src attributes and CSS url(...) references a fetched page may hold
Srcs ==
    {<<"/", "r", ".", "p", "d", "f", "?", "v">>,
     <<"h", "t", "t", "p", ":", "/", "/", "o", ".", "t", "/", "r", ".", "p", "d", "f">>,
     <<"/", "l", "o", "g", "o">>}

\* the start URLs a job may be given
StartURLs ==
    {<<"h", "t", "t", "p", ":", "/", "/", "e", "x", ".", "t">>,
     <<"h", "t", "t", "p", ":", "/", "/", "e", "x", ".", "t", "/", "d", "o", "c", "s", "/", "?", "p">>,
     <<"e", "x", ".", "t", "/", "a", "b", "o", "u", "t">>}

\* the sequences over S of length at most n
SeqsUpTo(S, n) == UNION {[1..k -> S] : k \in 0..n}

\* ------------------------------------------------------------- the crawl
VARIABLES
    pc,             \* where scrape_website is
    max_workers,    \* WebsiteScraper.max_workers
    max_pages,      \* WebsiteScraper.max_pages (0 = unlimited)
    start_url,      \* the argument of scrape_website
    visited_urls,   \* WebsiteScraper.visited_urls
    to_visit,       \* the frontier, a list
    pages_results,  \* dict: URL -> html
    all_file_urls,  \* set of file URLs
    batch,          \* the batch of the current pass of the while loop
    bi,             \* the dispatch loop's position in batch
    futures,        \* the futures of the current batch, in submission order
    zi,             \* the number of (future, url) pairs zip has produced
    fetch_log       \* the URLs get_html was submitted for, in order

crawlVars == <<pc, max_workers, max_pages, start_url, visited_urls, to_visit,
               pages_results, all_file_urls, batch, bi, futures, zi, fetch_log>>

\* get_html's result: None, or the text of the page at `src` (possibly empty)
None == [kind |-> "None"]
Html(src, text) == [kind |-> "html", src |-> src, text |-> text]

\* Python's truth value of get_html's result: None and "" are false
Truthy(html) == html.kind = "html" /\ html.text # "empty"

Skip == [kind |-> "skip", url |-> <<>>]

\* a classification that takes every same-domain anchor for a page link
always_page(normalized_url) == [kind |-> "page", url |-> normalized_url]

\* extract_links: a same-domain anchor is a file link or a page link, by its
\* normalized URL
file_or_page(normalized_url) ==
    IF is_downloadable_file(normalized_url)
    THEN [kind |-> "file", url |-> normalized_url]
    ELSE [kind |-> "page", url |-> normalized_url]

\* extract_links: an anchor of another domain is skipped
same_domain_anchor(base_url, full_url) ==
    IF ~is_same_domain(full_url, base_url) THEN Skip
    ELSE file_or_page(normalize_url(full_url))

\* scraper.py extract_links, one <a href>: skipped (anchor, javascript, mailto,
\* other domain), else its normalized URL as a file link or a page link
anchor_link(base_url, href) ==
    IF \/ StartsWith(href, <<"#">>)
       \/ StartsWith(href, <<"j", "a", "v", "a", "s", "c", "r", "i", "p", "t", ":">>)
       \/ StartsWith(href, <<"m", "a", "i", "l", "t", "o", ":">>)
    THEN Skip
    ELSE same_domain_anchor(base_url, urljoin(base_url, href))

\* extract_links: a src or CSS reference is a file link when it is on the
\* domain and downloadable
same_domain_file(base_url, full_url) ==
    IF is_same_domain(full_url, base_url) /\ is_downloadable_file(full_url)
    THEN [kind |-> "file", url |-> full_url]
    ELSE Skip

\* scraper.py extract_links, one src attribute or CSS url(...): a file link
\* (the joined URL as it is) or skipped
asset_link(base_url, src) == same_domain_file(base_url, urljoin(base_url, src))

\* the page URLs of the site: what the start URLs and the hrefs lead to
RECURSIVE SitePages(_)
SitePages(B) ==
    LET found == {anchor_link(b, h) : b \in B, h \in Hrefs}
        N == B \cup {l.url : l \in {x \in found : x.kind = "page"}}
    IN IF N = B THEN B ELSE SitePages(N)

KnownPages == SitePages({normalize_url(u) : u \in {s \in StartURLs : validate_url(s)}})

\* anchor_link and asset_link tabulated over the site's pages (computed once)
AnchorTable == [b \in KnownPages, h \in Hrefs |-> anchor_link(b, h)]
AssetTable == [b \in KnownPages, s \in Srcs |-> asset_link(b, s)]

AnchorOf(base_url, href) ==
    IF base_url \in KnownPages /\ href \in Hrefs
    THEN AnchorTable[base_url, href] ELSE anchor_link(base_url, href)

AssetOf(base_url, src) ==
    IF base_url \in KnownPages /\ src \in Srcs
    THEN AssetTable[base_url, src] ELSE asset_link(base_url, src)

\* the links of kind k among the classified links ls, in order
RECURSIVE LinksOfKind(_, _)
LinksOfKind(ls, k) ==
    IF ls = <<>> THEN <<>>
    ELSE (IF Head(ls).kind = k THEN <<Head(ls).url>> ELSE <<>>) \o LinksOfKind(Tail(ls), k)

\* scraper.py extract_links
extract_links(base_url, hrefs, srcs) ==
    LET anchors == [i \in 1..Len(hrefs) |-> AnchorOf(base_url, hrefs[i])]
        assets == [i \in 1..Len(srcs) |-> AssetOf(base_url, srcs[i])]
    IN [page_links |-> LinksOfKind(anchors, "page"),
        file_links |-> LinksOfKind(anchors, "file") \o LinksOfKind(assets, "file")]

\* the texts a fetched page may have, as far as its links go
PageTexts ==
    {[hrefs |-> h, srcs |-> s] : h \in SeqsUpTo(Hrefs, MaxLinks), s \in SeqsUpTo(Srcs, MaxSrcs)}

\* the elements of list s at the positions idx, in order
SubSeqAt(s, idx) ==
    [k \in 1..Cardinality(idx) |->
        s[CHOOSE i \in idx : Cardinality({j \in idx : j <= i}) = k]]

\* the first occurrences of the elements of s, in order
FirstOccurrences(s) ==
    SubSeqAt(s, {i \in 1..Len(s) : \A j \in 1..(i - 1) : s[j] # s[i]})

\* what scrape_website reads of extract_links' result: the page links in the
\* order of their first occurrence (a repeated link is already in to_visit when
\* the loop reaches it again) and the set of the file links (set.update)
links_read(links) ==
    [page_links |-> FirstOccurrences(links.page_links),
     file_links |-> Range(links.file_links)]

\* what extract_links may return for a page fetched as base_url
Extracted(base_url) ==
    {links_read(extract_links(base_url, t.hrefs, t.srcs)) : t \in PageTexts}

\* Extracted tabulated over the site's pages (computed once)
ExtractTable == [b \in KnownPages |-> Extracted(b)]

LinksFound(base_url) ==
    IF base_url \in KnownPages THEN ExtractTable[base_url] ELSE Extracted(base_url)

\* an enqueueing loop without the two membership tests
enqueue_links_unchecked(queue, links, visited) == queue \o links

\* scrape_website: "for link in page_links: if link not in visited and not in to_visit"
RECURSIVE enqueue_links(_, _, _)
enqueue_links(queue, links, visited) ==
    IF links = <<>> THEN queue
    ELSE enqueue_links(
             IF Head(links) \notin visited /\ Head(links) \notin Range(queue)
             THEN Append(queue, Head(links)) ELSE queue,
             Tail(links), visited)

\* dict assignment d[k] = v
DictPut(d, k, v) == [x \in DOMAIN d \cup {k} |-> IF x = k THEN v ELSE d[x]]

\* a while condition that never ends the loop
loop_condition_always == TRUE

\* a while condition without the page cap
loop_condition_uncapped == to_visit # <<>>

\* a while condition without the test for max_pages = 0
loop_condition_capped == to_visit # <<>> /\ Cardinality(DOMAIN pages_results) < max_pages

\* the while condition of scrape_website
loop_condition == to_visit # <<>> /\ (max_pages = 0 \/ Cardinality(DOMAIN pages_results) < max_pages)

\* a result loop that never breaks at the page limit
limit_reached_never(pages) == FALSE

\* a page-limit test that lets one page past the limit
limit_reached_late(pages) == max_pages > 0 /\ Cardinality(DOMAIN pages) > max_pages

\* the page-limit test that breaks out of the result loop
limit_reached(pages) == max_pages > 0 /\ Cardinality(DOMAIN pages) >= max_pages

Min(a, b) == IF a < b THEN a ELSE b

\* a dispatch that records the whole frontier with the URL
mark_visited_all(url) == visited_urls \cup {url} \cup Range(to_visit)

\* a dispatch that does not record the URL
mark_visited_never(url) == visited_urls

\* self.visited_urls.add(url)
mark_visited(url) == visited_urls \cup {url}

CrawlInit ==
    /\ pc = "start"
    /\ max_workers \in 1..MaxWorkers
    /\ max_pages \in 0..MaxPagesCap
    /\ start_url \in StartURLs
    /\ visited_urls = {}
    /\ to_visit = <<>>
    /\ pages_results = <<>>
    /\ all_file_urls = {}
    /\ batch = <<>>
    /\ bi = 1
    /\ futures = <<>>
    /\ zi = 0
    /\ fetch_log = <<>>

\* scrape_website, entry: validate, normalize, reset the job's state
StartJob ==
    /\ pc = "start"
    /\ IF validate_url(start_url)
       THEN /\ to_visit' = <<normalize_url(start_url)>>
            /\ pc' = "loop"
       ELSE /\ to_visit' = <<>>
            /\ pc' = "done"
    /\ visited_urls' = {}
    /\ pages_results' = <<>>
    /\ all_file_urls' = {}
    /\ UNCHANGED <<max_workers, max_pages, start_url, batch, bi, futures, zi, fetch_log>>

\* the head of the while loop: take the next batch, or leave the loop
TakeBatch ==
    /\ pc = "loop"
    /\ IF loop_condition
       THEN /\ batch' = SubSeq(to_visit, 1, Min(max_workers, Len(to_visit)))
            /\ to_visit' = SubSeq(to_visit, Min(max_workers, Len(to_visit)) + 1, Len(to_visit))
            /\ futures' = <<>>
            /\ bi' = 1
            /\ zi' = 0
            /\ pc' = "dispatch"
       ELSE /\ pc' = "join"
            /\ UNCHANGED <<batch, to_visit, futures, bi, zi>>
    /\ UNCHANGED <<max_workers, max_pages, start_url, visited_urls, pages_results,
                   all_file_urls, fetch_log>>

\* one pass of "for url in batch": skip a visited URL, else mark it and submit get_html
Dispatch ==
    /\ pc = "dispatch"
    /\ bi <= Len(batch)
    /\ LET url == batch[bi]
       IN IF url \in visited_urls
          THEN UNCHANGED <<visited_urls, futures, fetch_log>>
          ELSE /\ visited_urls' = mark_visited(url)
               /\ futures' = Append(futures, [url |-> url, state |-> "running",
                                              result |-> None, yielded |-> FALSE])
               /\ fetch_log' = Append(fetch_log, url)
    /\ bi' = bi + 1
    /\ pc' = IF bi < Len(batch) THEN "dispatch"
             ELSE IF futures' = <<>> THEN "loop" ELSE "collect"
    /\ UNCHANGED <<max_workers, max_pages, start_url, to_visit, pages_results,
                   all_file_urls, batch, zi>>

\* a worker thread returns from get_html(url): None (robots, error, bad status)
\* or the text of the page at url
FetchDone ==
    \E i \in 1..Len(futures) :
        /\ futures[i].state = "running"
        /\ \E r \in {None, Html(futures[i].url, "empty"), Html(futures[i].url, "text")} :
               futures' = [futures EXCEPT ![i].state = "done", ![i].result = r]
        /\ UNCHANGED <<pc, max_workers, max_pages, start_url, visited_urls, to_visit,
                       pages_results, all_file_urls, batch, bi, zi, fetch_log>>

\* the futures as_completed may yield next: done and not yet yielded
Yieldable == {i \in 1..Len(futures) : futures[i].state = "done" /\ ~futures[i].yielded}

\* the pairing of "for future, url in zip(as_completed(futures), batch)": the
\* k-th future that as_completed yields goes with the k-th URL of batch
zip_url(i, k) == batch[k]

\* one pass of "for future, url in zip(as_completed(futures), batch)", where
\* Found(url, html) is what extract_links(url, html) may return
CollectFrom(Found(_, _)) ==
    /\ pc = "collect"
    /\ \E i \in Yieldable :
         LET url == zip_url(i, zi + 1)
             html == futures[i].result
             more == zi + 1 < Len(futures)
         IN /\ futures' = [futures EXCEPT ![i].yielded = TRUE]
            /\ zi' = zi + 1
            /\ IF Truthy(html)
               THEN \E links \in Found(url, html) :
                      LET pages == DictPut(pages_results, url, html)
                      IN /\ pages_results' = pages
                         /\ all_file_urls' = all_file_urls \cup links.file_links
                         /\ to_visit' = enqueue_links(to_visit, links.page_links, visited_urls)
                         /\ pc' = IF limit_reached(pages) \/ ~more THEN "loop" ELSE "collect"
               ELSE /\ UNCHANGED <<pages_results, all_file_urls, to_visit>>
                    /\ pc' = IF more THEN "collect" ELSE "loop"
    /\ UNCHANGED <<max_workers, max_pages, start_url, visited_urls, batch, bi, fetch_log>>

\* extract_links(url, html) for a page of the site with whatever links its text holds
AnyLinks(url, html) == LinksFound(url)

\* one pass of the result loop with the page's links as the hrefs and srcs its
\* text holds
Collect == CollectFrom(AnyLinks)

\* leaving "with ThreadPoolExecutor": wait for every submitted call to return
JoinPool ==
    /\ pc = "join"
    /\ \A i \in 1..Len(futures) : futures[i].state = "done"
    /\ pc' = "done"
    /\ UNCHANGED <<max_workers, max_pages, start_url, visited_urls, to_visit, pages_results,
                   all_file_urls, batch, bi, futures, zi, fetch_log>>

\* ------------------------------------------------------------- the example site
\* the site of the scenarios: the start page links to /about and /report.pdf,
\* the page /about links back to the start page
ExampleRoot == <<"h", "t", "t", "p", "s", ":", "/", "/", "e", "x", "a", "m", "p", "l", "e", ".", "t", "e", "s", "t", "/">>
ExampleAbout == <<"h", "t", "t", "p", "s", ":", "/", "/", "e", "x", "a", "m", "p", "l", "e", ".", "t", "e", "s", "t", "/", "a", "b", "o", "u", "t">>
ExampleReport == <<"h", "t", "t", "p", "s", ":", "/", "/", "e", "x", "a", "m", "p", "l", "e", ".", "t", "e", "s", "t", "/", "r", "e", "p", "o", "r", "t", ".", "p", "d", "f">>

\* the ways the start URL of the example site may be written
ExampleStartURLs ==
    {<<"h", "t", "t", "p", "s", ":", "/", "/", "e", "x", "a", "m", "p", "l", "e", ".", "t", "e", "s", "t", "/">>,
     <<"h", "t", "t", "p", "s", ":", "/", "/", "e", "x", "a", "m", "p", "l", "e", ".", "t", "e", "s", "t">>,
     <<"h", "t", "t", "p", "s", ":", "/", "/", "e", "x", "a", "m", "p", "l", "e", ".", "t", "e", "s", "t", "/", "?", "l", "a", "n", "g">>,
     <<"h", "t", "t", "p", "s", ":", "/", "/", "e", "x", "a", "m", "p", "l", "e", ".", "t", "e", "s", "t", "/", "#", "t", "o", "p">>,
     <<"h", "t", "t", "p", "s", ":", "/", "/", "e", "x", "a", "m", "p", "l", "e", ".", "t", "e", "s", "t", "/", "/">>}

\* the text of the page fetched from src: its hrefs and srcs
ExamplePage(src) ==
    IF src = ExampleRoot
    THEN [hrefs |-> <<<<"/", "a", "b", "o", "u", "t">>, <<"/", "r", "e", "p", "o", "r", "t", ".", "p", "d", "f">>>>, srcs |-> <<>>]
    ELSE [hrefs |-> <<<<"/">>, <<"#", "t", "o", "p">>>>, srcs |-> <<>>]

\* extract_links(url, html) for a page of the example site
ExampleLinks(url, html) ==
    {links_read(extract_links(url, ExamplePage(html.src).hrefs, ExamplePage(html.src).srcs))}

ExampleInit ==
    /\ pc = "start"
    /\ max_workers \in 1..MaxWorkers
    /\ max_pages \in 0..1
    /\ start_url \in ExampleStartURLs
    /\ visited_urls = {}
    /\ to_visit = <<>>
    /\ pages_results = <<>>
    /\ all_file_urls = {}
    /\ batch = <<>>
    /\ bi = 1
    /\ futures = <<>>
    /\ zi = 0
    /\ fetch_log = <<>>

\* get_html returns the text of the page: every fetch succeeds
FetchOk ==
    \E i \in 1..Len(futures) :
        /\ futures[i].state = "running"
        /\ futures' = [futures EXCEPT ![i].state = "done",
                                      ![i].result = Html(futures[i].url, "text")]
        /\ UNCHANGED <<pc, max_workers, max_pages, start_url, visited_urls, to_visit,
                       pages_results, all_file_urls, batch, bi, zi, fetch_log>>

\* one pass of the result loop over a page of the example site
ExampleCollect == CollectFrom(ExampleLinks)

\* ------------------------------------------------------------- the upload
\* upload_to_rag.py:25 and retry_failed_uploads.py:24
CONCURRENT_UPLOADS == 5
\* the number of runs (upload or retry) one process performs one after another
MaxRuns == 3
\* the longest history list handed to save_upload_history in RoundTripSpec
MaxHistory == 2

Procs == {"p1", "p2"}

\* the files find_files may list under SCRAPED_DIR: a local path with its extension
MdFile == [name |-> "scraped_data/a", ext |-> ".md"]
PdfFile == [name |-> "scraped_data/b", ext |-> ".pdf"]
PngFile == [name |-> "scraped_data/c", ext |-> ".png"]
\* a directory of more supported files than the semaphore has slots
ManyFiles ==
    <<[name |-> "scraped_data/d1", ext |-> ".md"],
      [name |-> "scraped_data/d2", ext |-> ".md"],
      [name |-> "scraped_data/d3", ext |-> ".md"],
      [name |-> "scraped_data/d4", ext |-> ".md"],
      [name |-> "scraped_data/d5", ext |-> ".md"],
      [name |-> "scraped_data/d6", ext |-> ".txt"]>>
Artifacts == {MdFile, PdfFile, PngFile} \cup Range(ManyFiles)

SUPPORTED_EXTENSIONS == {".md", ".pdf", ".doc", ".docx", ".xls", ".xlsx", ".txt"}
SKIP_EXTENSIONS == {".png", ".jpg", ".jpeg", ".gif", ".bmp", ".svg", ".ico", ".webp"}

\* the remote endpoint's answers: a status with its body, or a transport error
Responses ==
    {[status |-> 200, text |-> "ok"],
     [status |-> 201, text |-> "created"],
     [status |-> 500, text |-> "server error"]}
TransportErrors == {"Cannot connect to host"}

\* the content of a file on disk
Absent == [kind |-> "absent"]
EmptyFile == [kind |-> "empty"]
Malformed == [kind |-> "malformed"]
\* json.dump of {"version": 1, "last_run_timestamp": ..., "uploaded_files": files}
HistoryJson(files) == [kind |-> "json", uploaded_files |-> files]
NoBuffer == [kind |-> "none"]

\* the identities a history file holds (none when it is absent or does not parse)
IdsOf(file) == IF file.kind = "json" THEN Range(file.uploaded_files) ELSE {}

VARIABLES
    all_files,        \* find_files(SCRAPED_DIR), a list
    histFile,         \* upload_history.json on disk
    failedLog,        \* failed_uploads.json on disk: Absent or a list of failure entries
    retryLog,         \* retry_failed_uploads.json on disk
    lock,             \* the holder of the flock on upload_history.json, or "free"
    runs_left,        \* per process: the runs it may still start
    ppc,              \* per process: where main is
    kind,             \* per process: "upload" (upload_to_rag.py) or "retry"
    history,          \* per process: main's history dict, its uploaded_files list
    already_uploaded, \* per process: main's already_uploaded set
    todo,             \* per process: the list given to upload_files / retry_failed_uploads
    tasks,            \* per process and artifact: the upload_file task's state and result
    sem,              \* per process: the semaphore's free slots
    buf,              \* per process: text written to an open history file, not yet flushed
    missing           \* the artifacts whose local file no longer exists

uploadVars == <<all_files, histFile, failedLog, retryLog, lock, runs_left, ppc, kind, history,
                already_uploaded, todo, tasks, sem, buf, missing>>


NoResult == [status |-> "none"]
NoTask == [st |-> "none", result |-> NoResult]

\* the elements of list s that satisfy Keep, in order
RECURSIVE Filter(_, _)
Filter(s, keep) ==
    IF s = <<>> THEN <<>>
    ELSE (IF Head(s) \in keep THEN <<Head(s)>> ELSE <<>>) \o Filter(Tail(s), keep)

\* the position of x in list s (x occurs in s)
IndexOf(s, x) == CHOOSE i \in 1..Len(s) : s[i] = x /\ \A j \in 1..(i - 1) : s[j] # x

\* a load that takes an unreadable history for one that holds every file
load_upload_history_full(file) ==
    IF file.kind = "json" THEN file.uploaded_files ELSE all_files

\* load_upload_history: the parsed file, or the empty history when the file is
\* absent or json.load raises JSONDecodeError
load_upload_history(file) ==
    IF file.kind = "json" THEN file.uploaded_files ELSE <<>>

\* closing (flushing) a file written from offset 0: the buffered text replaces the
\* start of what is on disk; a longer text on disk leaves its tail behind
flush(buffer, file) ==
    IF file.kind = "json" /\ Len(file.uploaded_files) > Len(buffer.uploaded_files)
    THEN Malformed
    ELSE buffer

\* upload_file's test of the response status
is_success(status) == status = 200

\* the result dicts of upload_file
Success(a) == [status |-> "success", file_path |-> a]
Skipped(a, why) == [status |-> "skipped", reason |-> why, file_path |-> a]
ApiFailure(a, r) ==
    [status |-> "failed", reason |-> <<"API Error: ", r.status>>, response |-> r.text,
     file_path |-> a]
\* an error that is passed on instead of being turned into a failure
ErrorRaised(a, e) == [status |-> "error", reason |-> e, file_path |-> a]

\* upload_file's except branch: the failure made of the error's text
ErrorFailure(a, e) == [status |-> "failed", reason |-> e, file_path |-> a]
\* the result dict of the retry script's upload_file for a file that is gone
FileGone(a) == [status |-> "failed", reason |-> "File no longer exists", file_path |-> a]

\* an existence test that finds every file
file_exists_always(a) == TRUE

\* os.path.exists(file_path)
file_exists(a) == a \notin missing

\* the results of the run of p, in task order (asyncio.gather)
Results(p) == [i \in 1..Len(todo[p]) |-> tasks[p][todo[p][i]].result]
ResultPaths(p, status) ==
    LET RECURSIVE pick(_)
        pick(i) == IF i > Len(todo[p]) THEN <<>>
                   ELSE (IF tasks[p][todo[p][i]].result.status = status
                         THEN <<todo[p][i]>> ELSE <<>>) \o pick(i + 1)
    IN pick(1)
ResultsWith(p, status) ==
    LET paths == ResultPaths(p, status)
    IN [i \in 1..Len(paths) |-> tasks[p][paths[i]].result]

\* no task of p is inside update_upload_history (which never awaits)
NotUpdating(p) == \A a \in Artifacts : tasks[p][a].st \notin {"upd_open", "upd_locked", "upd_close"}

UploadStart(budget) ==
    /\ all_files \in {<<MdFile, PdfFile>>, <<MdFile, PngFile>>}
    /\ histFile \in {Absent, Malformed, HistoryJson(<<>>), HistoryJson(<<MdFile>>)}
    /\ failedLog = Absent
    /\ retryLog = Absent
    /\ lock = "free"
    /\ runs_left = budget
    /\ ppc = [p \in Procs |-> "idle"]
    /\ kind = [p \in Procs |-> "upload"]
    /\ history = [p \in Procs |-> <<>>]
    /\ already_uploaded = [p \in Procs |-> {}]
    /\ todo = [p \in Procs |-> <<>>]
    /\ tasks = [p \in Procs |-> [a \in Artifacts |-> NoTask]]
    /\ sem = [p \in Procs |-> CONCURRENT_UPLOADS]
    /\ buf = [p \in Procs |-> NoBuffer]
    /\ missing = {}

LogJson(entries) == [kind |-> "json", entries |-> entries]

SetTask(p, a, st, result) == [tasks EXCEPT ![p][a] = [st |-> st, result |-> result]]

\* the tasks asyncio.create_task makes for the list `files`
NewTasks(files) == [a \in Artifacts |-> IF a \in Range(files) THEN [st |-> "new", result |-> NoResult]
                                        ELSE NoTask]

\* upload_to_rag.py main, up to asyncio.run: load the history, list the files,
\* keep those not yet uploaded, create the tasks
StartUpload(p) ==
    /\ ppc[p] \in {"idle", "done"}
    /\ runs_left[p] > 0
    /\ runs_left' = [runs_left EXCEPT ![p] = @ - 1]
    /\ kind' = [kind EXCEPT ![p] = "upload"]
    /\ LET loaded == load_upload_history(histFile)
           files_to_upload == Filter(all_files, Artifacts \ Range(loaded))
       IN /\ history' = [history EXCEPT ![p] = loaded]
          /\ already_uploaded' = [already_uploaded EXCEPT ![p] = Range(loaded)]
          /\ todo' = [todo EXCEPT ![p] = files_to_upload]
          /\ tasks' = [tasks EXCEPT ![p] = NewTasks(files_to_upload)]
          /\ ppc' = [ppc EXCEPT ![p] = IF files_to_upload = <<>> THEN "done" ELSE "gather"]
    /\ sem' = [sem EXCEPT ![p] = CONCURRENT_UPLOADS]
    /\ missing' = {}
    /\ UNCHANGED <<all_files, histFile, failedLog, retryLog, lock, buf>>

\* retry_failed_uploads.py main, up to asyncio.run: read FAILED_UPLOADS_LOG; some
\* of the listed files may have been deleted since the failures were logged
StartRetry(p) ==
    /\ ppc[p] \in {"idle", "done"}
    /\ runs_left[p] > 0
    /\ runs_left' = [runs_left EXCEPT ![p] = @ - 1]
    /\ kind' = [kind EXCEPT ![p] = "retry"]
    /\ LET failed_files == IF failedLog.kind = "json" THEN failedLog.entries ELSE <<>>
           paths == [i \in 1..Len(failed_files) |-> failed_files[i].file_path]
       IN /\ todo' = [todo EXCEPT ![p] = paths]
          /\ tasks' = [tasks EXCEPT ![p] = NewTasks(paths)]
          /\ missing' \in SUBSET Range(paths)
          /\ ppc' = [ppc EXCEPT ![p] = IF paths = <<>> THEN "done" ELSE "gather"]
    /\ history' = [history EXCEPT ![p] = <<>>]
    /\ already_uploaded' = [already_uploaded EXCEPT ![p] = {}]
    /\ sem' = [sem EXCEPT ![p] = CONCURRENT_UPLOADS]
    /\ UNCHANGED <<all_files, histFile, failedLog, retryLog, lock, buf>>

\* a semaphore that never blocks
can_acquire_always(p) == TRUE

\* asyncio.Semaphore.acquire returns at once when a slot is free
can_acquire(p) == sem[p] > 0

\* the tasks of p before a in task order
Earlier(p, a) == {todo[p][i] : i \in 1..(IndexOf(todo[p], a) - 1)}

\* upload_file up to session.post: a task runs when the event loop first
\* schedules it (in creation order), or when the semaphore wakes it
TaskStart(p) ==
    /\ ppc[p] = "gather"
    /\ NotUpdating(p)
    /\ \E a \in Range(todo[p]) :
         /\ \/ tasks[p][a].st = "new" /\ \A b \in Earlier(p, a) : tasks[p][b].st # "new"
            \/ /\ tasks[p][a].st = "waiting" /\ can_acquire(p)
               /\ \A b \in Earlier(p, a) : tasks[p][b].st # "waiting"
         /\ IF kind[p] = "upload" /\ a.ext \in SKIP_EXTENSIONS
            THEN /\ tasks' = SetTask(p, a, "done", Skipped(a, "image file"))
                 /\ sem' = sem
            ELSE IF kind[p] = "upload" /\ a.ext \notin SUPPORTED_EXTENSIONS
            THEN /\ tasks' = SetTask(p, a, "done", Skipped(a, "unsupported file type"))
                 /\ sem' = sem
            ELSE IF kind[p] = "retry" /\ ~file_exists(a)
            THEN /\ tasks' = SetTask(p, a, "done", FileGone(a))
                 /\ sem' = sem
            ELSE IF can_acquire(p)
            THEN /\ tasks' = SetTask(p, a, "posting", NoResult)
                 /\ sem' = [sem EXCEPT ![p] = @ - 1]
            ELSE /\ tasks' = SetTask(p, a, "waiting", NoResult)
                 /\ sem' = sem
    /\ UNCHANGED <<all_files, missing, histFile, failedLog, retryLog, lock, runs_left, ppc, kind,
                   history, already_uploaded, todo, buf>>

\* upload_file from the response on: the endpoint answers, or the post raises
Respond(p) ==
    /\ ppc[p] = "gather"
    /\ NotUpdating(p)
    /\ \E a \in Range(todo[p]) :
         /\ tasks[p][a].st = "posting"
         /\ \/ \E e \in TransportErrors :
                 /\ tasks' = SetTask(p, a, "done", ErrorFailure(a, e))
                 /\ sem' = [sem EXCEPT ![p] = @ + 1]
            \/ \E r \in Responses :
                 IF is_success(r.status)
                 THEN IF kind[p] = "upload"
                      THEN /\ tasks' = SetTask(p, a, "upd_open", NoResult)
                           /\ sem' = sem
                      ELSE /\ tasks' = SetTask(p, a, "done", Success(a))
                           /\ sem' = [sem EXCEPT ![p] = @ + 1]
                 ELSE /\ tasks' = SetTask(p, a, "done", ApiFailure(a, r))
                      /\ sem' = [sem EXCEPT ![p] = @ + 1]
    /\ UNCHANGED <<all_files, missing, histFile, failedLog, retryLog, lock, runs_left, ppc, kind,
                   history, already_uploaded, todo, buf>>

\* update_upload_history: open(UPLOAD_HISTORY_FILE, 'r+') and flock(LOCK_EX); a
\* missing file raises, which the function logs, and upload_file returns success
UpdOpen(p) ==
    /\ \E a \in Range(todo[p]) :
         /\ tasks[p][a].st = "upd_open"
         /\ IF histFile.kind = "absent"
            THEN /\ tasks' = SetTask(p, a, "done", Success(a))
                 /\ sem' = [sem EXCEPT ![p] = @ + 1]
                 /\ lock' = lock
            ELSE /\ lock = "free"
                 /\ lock' = p
                 /\ tasks' = SetTask(p, a, "upd_locked", NoResult)
                 /\ sem' = sem
    /\ UNCHANGED <<all_files, missing, histFile, failedLog, retryLog, runs_left, ppc, kind, history,
                   already_uploaded, todo, buf>>

\* what update_upload_history writes for file_path a over the history it read
updated_history(files, a) == Append(files, a)

\* update_upload_history under the lock: json.load; if the path is new, append it,
\* seek(0), truncate() and json.dump (into the file object's buffer); unlock.
\* A file that does not parse raises: unlock, log, upload_file returns success
UpdWrite(p) ==
    /\ \E a \in Range(todo[p]) :
         /\ tasks[p][a].st = "upd_locked"
         /\ lock' = "free"
         /\ IF histFile.kind # "json"
            THEN /\ tasks' = SetTask(p, a, "done", Success(a))
                 /\ sem' = [sem EXCEPT ![p] = @ + 1]
                 /\ UNCHANGED <<histFile, buf>>
            ELSE IF a \in Range(histFile.uploaded_files)
            THEN /\ tasks' = SetTask(p, a, "done", Success(a))
                 /\ sem' = [sem EXCEPT ![p] = @ + 1]
                 /\ UNCHANGED <<histFile, buf>>
            ELSE /\ histFile' = EmptyFile
                 /\ buf' = [buf EXCEPT ![p] = HistoryJson(updated_history(histFile.uploaded_files, a))]
                 /\ tasks' = SetTask(p, a, "upd_close", NoResult)
                 /\ sem' = sem
    /\ UNCHANGED <<all_files, missing, failedLog, retryLog, runs_left, ppc, kind, history,
                   already_uploaded, todo>>

\* update_upload_history, leaving "with open": the buffered text reaches the disk;
\* upload_file returns success and leaves "async with semaphore"
UpdClose(p) ==
    /\ \E a \in Range(todo[p]) :
         /\ tasks[p][a].st = "upd_close"
         /\ tasks' = SetTask(p, a, "done", Success(a))
    /\ histFile' = flush(buf[p], histFile)
    /\ buf' = [buf EXCEPT ![p] = NoBuffer]
    /\ sem' = [sem EXCEPT ![p] = @ + 1]
    /\ UNCHANGED <<all_files, missing, failedLog, retryLog, lock, runs_left, ppc, kind, history,
                   already_uploaded, todo>>

\* a history read again from the file, which update_upload_history has
\* written during the run, and then extended with the run's successes
extended_history_reread(p) == load_upload_history(histFile) \o ResultPaths(p, "success")

\* a history extended with every file of the run, whatever its result
extended_history_all(p) == history[p] \o todo[p]

\* what main adds to its history dict after the run: history["uploaded_files"].extend(successful)
extended_history(p) == history[p] \o ResultPaths(p, "success")

\* a report in which the retry writes its failures over the record it read
ReportIntoInput(p) ==
    /\ ppc[p] = "gather"
    /\ \A a \in Range(todo[p]) : tasks[p][a].st = "done"
    /\ LET failed == ResultsWith(p, "failed")
       IN IF kind[p] = "upload"
          THEN /\ failedLog' = IF failed # <<>> THEN LogJson(failed) ELSE failedLog
               /\ retryLog' = retryLog
               /\ history' = [history EXCEPT ![p] = extended_history(p)]
               /\ ppc' = [ppc EXCEPT ![p] = "save_open"]
          ELSE /\ failedLog' = IF failed # <<>> THEN LogJson(failed) ELSE failedLog
               /\ retryLog' = retryLog
               /\ history' = history
               /\ ppc' = [ppc EXCEPT ![p] = "done"]
    /\ UNCHANGED <<all_files, missing, histFile, lock, runs_left, kind, already_uploaded, todo, tasks,
                   sem, buf>>

\* after asyncio.gather: upload_files / retry_failed_uploads write the failures (if
\* any) to their log; upload_to_rag's main extends its history with the successes
Report(p) ==
    /\ ppc[p] = "gather"
    /\ \A a \in Range(todo[p]) : tasks[p][a].st = "done"
    /\ LET failed == ResultsWith(p, "failed")
       IN IF kind[p] = "upload"
          THEN /\ failedLog' = IF failed # <<>> THEN LogJson(failed) ELSE failedLog
               /\ retryLog' = retryLog
               /\ history' = [history EXCEPT ![p] = extended_history(p)]
               /\ ppc' = [ppc EXCEPT ![p] = "save_open"]
          ELSE /\ retryLog' = IF failed # <<>> THEN LogJson(failed) ELSE retryLog
               /\ failedLog' = failedLog
               /\ history' = history
               /\ ppc' = [ppc EXCEPT ![p] = "done"]
    /\ UNCHANGED <<all_files, missing, histFile, lock, runs_left, kind, already_uploaded, todo, tasks,
                   sem, buf>>

\* an open that keeps what the file holds
SaveOpenKeeping(p) ==
    /\ ppc[p] = "save_open"
    /\ ppc' = [ppc EXCEPT ![p] = "save_lock"]
    /\ UNCHANGED <<all_files, missing, histFile, failedLog, retryLog, lock, runs_left, kind,
                   history, already_uploaded, todo, tasks, sem, buf>>

\* save_upload_history: open(UPLOAD_HISTORY_FILE, 'w') creates or truncates the file
SaveOpen(p) ==
    /\ ppc[p] = "save_open"
    /\ histFile' = EmptyFile
    /\ ppc' = [ppc EXCEPT ![p] = "save_lock"]
    /\ UNCHANGED <<all_files, missing, failedLog, retryLog, lock, runs_left, kind, history,
                   already_uploaded, todo, tasks, sem, buf>>

\* save_upload_history: flock(LOCK_EX)
SaveLock(p) ==
    /\ ppc[p] = "save_lock"
    /\ lock = "free"
    /\ lock' = p
    /\ ppc' = [ppc EXCEPT ![p] = "save_dump"]
    /\ UNCHANGED <<all_files, missing, histFile, failedLog, retryLog, runs_left, kind, history,
                   already_uploaded, todo, tasks, sem, buf>>

\* save_upload_history: json.dump (into the file object's buffer), then unlock
SaveDump(p) ==
    /\ ppc[p] = "save_dump"
    /\ buf' = [buf EXCEPT ![p] = HistoryJson(history[p])]
    /\ lock' = "free"
    /\ ppc' = [ppc EXCEPT ![p] = "save_close"]
    /\ UNCHANGED <<all_files, missing, histFile, failedLog, retryLog, runs_left, kind, history,
                   already_uploaded, todo, tasks, sem>>

\* save_upload_history, leaving "with open": the buffered text reaches the disk
SaveClose(p) ==
    /\ ppc[p] = "save_close"
    /\ histFile' = flush(buf[p], histFile)
    /\ buf' = [buf EXCEPT ![p] = NoBuffer]
    /\ ppc' = [ppc EXCEPT ![p] = "done"]
    /\ UNCHANGED <<all_files, missing, failedLog, retryLog, lock, runs_left, kind, history,
                   already_uploaded, todo, tasks, sem>>

\* ------------------------------------------------------------- the downloads
VARIABLES
    dpc,               \* where the download block of scrape_website is
    file_order,        \* the order in which the set all_file_urls is iterated
    di,                \* the submit loop's position in file_order
    dl_futures,        \* the futures of download_file, in submission order
    dzi,               \* the number of (future, file_url) pairs zip has produced
    disk,              \* the files of files_dir: local path -> URL whose bytes it holds
    downloaded_files   \* WebsiteScraper.downloaded_files: URL -> local path

downloadVars == <<dpc, file_order, di, dl_futures, dzi, disk, downloaded_files>>

\* every way to iterate a set
Orders(S) == {s \in [1..Cardinality(S) -> S] : Range(s) = S}

\* str.rfind(c): the last index of character c in s, 0 when absent
LastFind(s, c) ==
    IF c \in Range(s)
    THEN CHOOSE i \in 1..Len(s) : s[i] = c /\ \A j \in (i + 1)..Len(s) : s[j] # c
    ELSE 0

\* os.path.basename
basename(path) == SubSeq(path, LastFind(path, "/") + 1, Len(path))

\* download_file: [p for p in path.split('/') if p][-1], or 'file'
last_part(path) ==
    IF basename(rstrip_slash(path)) = <<>>
    THEN <<"f", "i", "l", "e">>
    ELSE basename(rstrip_slash(path))

\* the extensions the Content-Type table of download_file may give ('' when
\* the type is not in the table)
content_type_exts == {<<>>, <<".", "p", "d", "f">>, <<".", "t", "x", "t">>}

\* download_file: the name for a path without a usable last segment
generated_name(part, ext) ==
    IF ext # <<>> /\ ~EndsWith(part, ext) THEN part \o ext ELSE part

IllegalChars == {"<", ">", ":", "\"", "/", "\\", "|", "?", "*"}

\* re.sub(r'[<>:"/\\|?*]', '_', filename)
sanitize(filename) ==
    [i \in 1..Len(filename) |-> IF filename[i] \in IllegalChars THEN "_" ELSE filename[i]]

\* download_file: the filename derived from the URL, and from the extension
\* of the HEAD response's Content-Type when the last segment has no "."
needs_head(path) == basename(path) = <<>> \/ "." \notin Range(basename(path))

derive_filename(path, ext) ==
    IF needs_head(path)
    THEN sanitize(generated_name(last_part(path), ext))
    ELSE sanitize(basename(path))

files_dir == <<"f", "i", "l", "e", "s">>

\* os.path.join(save_dir, filename)
path_join(dir, filename) == dir \o <<"/">> \o filename

\* str(counter)
str_int(n) ==
    CASE n = 1 -> <<"1">>
      [] n = 2 -> <<"2">>
      [] n = 3 -> <<"3">>
      [] OTHER -> <<"4">>

\* os.path.splitext: the index of the "." that starts the extension, 0 when
\* the name has none (a leading "." starts no extension)
ext_at(filename) == IF LastFind(filename, ".") > 1 THEN LastFind(filename, ".") ELSE 0

\* f"{base}_{counter}{ext}"
numbered(filename, at, counter) ==
    IF at = 0
    THEN filename \o <<"_">> \o str_int(counter)
    ELSE SubSeq(filename, 1, at - 1) \o <<"_">> \o str_int(counter)
         \o SubSeq(filename, at, Len(filename))

\* the counter at which "while os.path.exists(save_path)" ends
first_free(filename, existing) ==
    CHOOSE c \in 1..(Cardinality(existing) + 1) :
        /\ path_join(files_dir, numbered(filename, ext_at(filename), c)) \notin existing
        /\ \A b \in 1..(c - 1) :
               path_join(files_dir, numbered(filename, ext_at(filename), b)) \in existing

\* download_file: the save path chosen by the existence check
free_path(filename, existing) ==
    IF path_join(files_dir, filename) \in existing
    THEN path_join(files_dir, numbered(filename, ext_at(filename), first_free(filename, existing)))
    ELSE path_join(files_dir, filename)

\* download_file's return value
Failed == [success |-> FALSE, file_path |-> <<>>]
Saved(path) == [success |-> TRUE, file_path |-> path]

\* "if self.download_files and files_dir and all_file_urls": enter the
\* download block, iterating the set in some order
StartDownloads ==
    /\ pc = "done"
    /\ dpc = "ready"
    /\ IF all_file_urls # {}
       THEN /\ file_order' \in Orders(all_file_urls)
            /\ dpc' = "submit"
       ELSE /\ file_order' = <<>>
            /\ dpc' = "done"
    /\ UNCHANGED <<di, dl_futures, dzi, disk, downloaded_files>>

\* one pass of "for file_url in all_file_urls": submit download_file unless
\* the URL is already downloaded
Submit ==
    /\ dpc = "submit"
    /\ di <= Len(file_order)
    /\ IF file_order[di] \in DOMAIN downloaded_files
       THEN UNCHANGED dl_futures
       ELSE dl_futures' = Append(dl_futures, [url |-> file_order[di], state |-> "queued",
                                             filename |-> <<>>, save_path |-> <<>>,
                                             result |-> Failed, yielded |-> FALSE])
    /\ di' = di + 1
    /\ dpc' = IF di < Len(file_order) THEN "submit" ELSE "collect"
    /\ UNCHANGED <<file_order, dzi, disk, downloaded_files>>

\* the submitted calls a worker thread of the pool is in
Running == {i \in 1..Len(dl_futures) : dl_futures[i].state = "checked"}

\* a worker thread takes the oldest queued call and runs download_file up to
\* the existence check: robots.txt may disallow the URL, the HEAD request may
\* fail, else the save path is the first one that does not exist now
DlCheck ==
    \E i \in 1..Len(dl_futures) :
        /\ dl_futures[i].state = "queued"
        /\ \A j \in 1..(i - 1) : dl_futures[j].state # "queued"
        /\ Cardinality(Running) < max_workers
        /\ \/ dl_futures' = [dl_futures EXCEPT ![i].state = "done"]
           \/ \E ext \in content_type_exts :
                /\ ext = <<>> \/ needs_head(urlparse(dl_futures[i].url).path)
                /\ dl_futures' =
                     [dl_futures EXCEPT
                        ![i].state = "checked",
                        ![i].filename = derive_filename(urlparse(dl_futures[i].url).path, ext),
                        ![i].save_path =
                            free_path(derive_filename(urlparse(dl_futures[i].url).path, ext),
                                      DOMAIN disk)]
        /\ UNCHANGED <<dpc, file_order, di, dzi, disk, downloaded_files>>

\* the rest of download_file: the GET fails, or the bytes are written to the
\* save path with open(save_path, 'wb')
DlWrite ==
    \E i \in 1..Len(dl_futures) :
        /\ dl_futures[i].state = "checked"
        /\ \/ /\ dl_futures' = [dl_futures EXCEPT ![i].state = "done"]
              /\ UNCHANGED disk
           \/ /\ dl_futures' = [dl_futures EXCEPT ![i].state = "done",
                                                  ![i].result = Saved(dl_futures[i].save_path)]
              /\ disk' = DictPut(disk, dl_futures[i].save_path, dl_futures[i].url)
        /\ UNCHANGED <<dpc, file_order, di, dzi, downloaded_files>>

\* one pass of "for future, file_url in zip(as_completed(futures), all_file_urls)"
DlCollect ==
    /\ dpc = "collect"
    /\ \E i \in 1..Len(dl_futures) :
        /\ dl_futures[i].state = "done"
        /\ ~dl_futures[i].yielded
        /\ dl_futures' = [dl_futures EXCEPT ![i].yielded = TRUE]
        /\ dzi' = dzi + 1
        /\ downloaded_files' =
             IF dl_futures[i].result.success
             THEN DictPut(downloaded_files, file_order[dzi + 1], dl_futures[i].result.file_path)
             ELSE downloaded_files
    /\ UNCHANGED <<dpc, file_order, di, disk>>

\* the result loop is over and the pool is left: scrape_website returns
DlJoin ==
    /\ dpc = "collect"
    /\ \A i \in 1..Len(dl_futures) : dl_futures[i].yielded
    /\ dpc' = "done"
    /\ UNCHANGED <<file_order, di, dl_futures, dzi, disk, downloaded_files>>

\* no download block is running
DownloadOff ==
    /\ dpc = "off"
    /\ file_order = <<>>
    /\ di = 1
    /\ dl_futures = <<>>
    /\ dzi = 0
    /\ disk = <<>>
    /\ downloaded_files = <<>>

\* file URLs a crawl may have collected: two with the last segment r.pdf, one
\* whose last segment has no extension
FileA == <<"h", "t", "t", "p", ":", "/", "/", "e", "x", ".", "t", "/", "a", "/", "r", ".", "p", "d", "f">>
FileB == <<"h", "t", "t", "p", ":", "/", "/", "e", "x", ".", "t", "/", "b", "/", "r", ".", "p", "d", "f">>
FileC == <<"h", "t", "t", "p", ":", "/", "/", "e", "x", ".", "t", "/", "f", "i", "l", "e", "?", "r", ".", "p", "d", "f">>

\* scrape_website after the crawl loop, with the file URLs the crawl collected
DownloadInit ==
    /\ pc = "done"
    /\ max_workers \in 1..MaxWorkers
    /\ max_pages = 0
    /\ start_url = <<"h", "t", "t", "p", ":", "/", "/", "e", "x", ".", "t", "/">>
    /\ visited_urls = {start_url}
    /\ to_visit = <<>>
    /\ pages_results = <<>>
    /\ all_file_urls \in {S \in SUBSET {FileA, FileB, FileC} : \A u \in S : is_downloadable_file(u)}
    /\ batch = <<>>
    /\ bi = 1
    /\ futures = <<>>
    /\ zi = 0
    /\ fetch_log = <<start_url>>
    /\ dpc = "ready"
    /\ file_order = <<>>
    /\ di = 1
    /\ dl_futures = <<>>
    /\ dzi = 0
    /\ disk = <<>>
    /\ downloaded_files = <<>>

\* ------------------------------------------------------------- the URL functions
VARIABLES
    given_url,         \* the text a caller passes to the functions of url_processor
    normalized_once,   \* the result of normalize_url(given_url)
    normalized_twice,  \* the result of normalize_url on that result
    classified         \* the result of is_downloadable_file(given_url)

urlVars == <<given_url, normalized_once, normalized_twice, classified>>

NotCalled == [called |-> FALSE, value |-> <<>>]
Returned(v) == [called |-> TRUE, value |-> v]

\* the parts the given URLs are spelled from
GivenSchemes == {<<>>, <<"h", "t", "t", "p", ":">>, <<"m", "a", "i", "l", "t", "o", ":">>}
GivenAuthorities == {<<>>, <<"/", "/", "e", "x", ".", "t">>}
GivenPaths ==
    {<<>>, <<"/">>, <<"a">>, <<"/", "a", "/">>, <<"/", "a", ";", "b", "/">>,
     <<"/", "r", ".", "P", "D", "F">>,
     <<"/", "r", ".", "p", "d", "f", "/">>,
     <<"/", "r", ".", "p", "d", "f", ";", "b">>,
     <<"/", "d", "o", "c", "u", "m", "e", "n", "t", "s", "/">>,
     <<"/", "f", "i", "l", "e", "s", "/", "a">>,
     <<"/", "d", "o", "w", "n", "l", "o", "a", "d">>}
    \cup {<<"/", "r">> \o ext : ext \in document_extensions}
GivenTails ==
    {<<>>, <<"?", "q">>, <<"#", "t", "o", "p">>,
     <<"?", "f", "i", "l", "e", "=", "r", ".", "c", "s", "v">>}

GivenURLs ==
    {s \o a \o p \o t : s \in GivenSchemes, a \in GivenAuthorities, p \in GivenPaths,
                        t \in GivenTails}

UrlInit ==
    /\ given_url \in GivenURLs
    /\ normalized_once = NotCalled
    /\ normalized_twice = NotCalled
    /\ classified = NotCalled

\* a caller normalizes the URL
Normalize ==
    /\ ~normalized_once.called
    /\ normalized_once' = Returned(normalize_url(given_url))
    /\ UNCHANGED <<given_url, normalized_twice, classified>>

\* a caller normalizes the normalized URL
NormalizeAgain ==
    /\ normalized_once.called
    /\ ~normalized_twice.called
    /\ normalized_twice' = Returned(normalize_url(normalized_once.value))
    /\ UNCHANGED <<given_url, normalized_once, classified>>

\* a caller classifies the URL
Classify ==
    /\ ~classified.called
    /\ classified' = Returned(is_downloadable_file(given_url))
    /\ UNCHANGED <<given_url, normalized_once, normalized_twice>>

\* no URL function is being called
UrlOff ==
    /\ given_url = <<>>
    /\ normalized_once = NotCalled
    /\ normalized_twice = NotCalled
    /\ classified = NotCalled

\* ------------------------------------------------------------- robots.txt and get_html
\* the worker threads of the pool that call get_html
Threads == {"t1", "t2"}

\* URLs the crawl may hand to get_html: two schemes of one host
PlainRoot == <<"h", "t", "t", "p", ":", "/", "/", "e", "x", ".", "t", "/">>
PlainPrivate == <<"h", "t", "t", "p", ":", "/", "/", "e", "x", ".", "t", "/", "p">>
SecurePrivate == <<"h", "t", "t", "p", "s", ":", "/", "/", "e", "x", ".", "t", "/", "p">>
FetchURLs == {PlainRoot, PlainPrivate, SecurePrivate}

VARIABLES
    robot_parsers,   \* WebsiteScraper.robot_parsers: domain -> RobotFileParser
    read_errors,     \* the domains for which parser.read() has raised
    calls            \* per thread: the get_html call it is in

robotVars == <<robot_parsers, read_errors, calls>>

\* the states of a RobotFileParser: allow_all set, disallow_all set, rules
\* parsed from robots.txt (the path prefixes disallowed for "*"), or nothing
\* read (last_checked = 0)
AllowAll == [kind |-> "allow_all", disallow |-> {}]
DisallowAll == [kind |-> "disallow_all", disallow |-> {}]
Rules(prefixes) == [kind |-> "rules", disallow |-> prefixes]
Unread == [kind |-> "unread", disallow |-> {}]

\* the rule sets a robots.txt of the site may hold
RuleSets == {{}, {<<"/", "p">>}}

\* what parser.read() leaves in the parser when it returns: the parsed rules,
\* disallow_all after HTTP 401/403, allow_all after another 4xx, nothing after 5xx
ReadResults == {Rules(r) : r \in RuleSets} \cup {DisallowAll, AllowAll, Unread}

\* RobotFileParser.can_fetch("*", url)
can_fetch(parser, url) ==
    CASE parser.kind = "disallow_all" -> FALSE
      [] parser.kind = "allow_all" -> TRUE
      [] parser.kind = "unread" -> FALSE
      [] OTHER -> \A prefix \in parser.disallow : ~StartsWith(urlparse(url).path, prefix)

\* _get_robot_parser: f"{parsed_url.scheme}://{parsed_url.netloc}"
robots_domain(parsed_url) == parsed_url.scheme \o <<":", "/", "/">> \o parsed_url.netloc

Idle == [pc |-> "idle", url |-> <<>>, result |-> None, why |-> "none"]
InCall(url, at) == [pc |-> at, url |-> url, result |-> None, why |-> "none"]
\* get_html has returned `result`; `why` records the return statement taken
Returned_html(url, result, why) == [pc |-> "returned", url |-> url, result |-> result, why |-> why]

\* _get_robot_parser's except branch: parser.allow_all = True
fail_open == AllowAll

\* a thread is handed get_html(url)
CallGetHtml(t) ==
    /\ calls[t].pc \in {"idle", "returned"}
    /\ \E url \in FetchURLs : calls' = [calls EXCEPT ![t] = InCall(url, "lookup")]
    /\ UNCHANGED <<robot_parsers, read_errors>>

\* _get_robot_parser: "if domain not in self.robot_parsers"
Lookup(t) ==
    /\ calls[t].pc = "lookup"
    /\ calls' = [calls EXCEPT ![t].pc =
                    IF robots_domain(urlparse(calls[t].url)) \in DOMAIN robot_parsers
                    THEN "check" ELSE "read"]
    /\ UNCHANGED <<robot_parsers, read_errors>>

\* _get_robot_parser: parser.read() returns or raises, and the parser is
\* stored in self.robot_parsers
ReadRobots(t) ==
    /\ calls[t].pc = "read"
    /\ \/ \E parser \in ReadResults :
            /\ robot_parsers' = DictPut(robot_parsers, robots_domain(urlparse(calls[t].url)), parser)
            /\ read_errors' = read_errors
       \/ /\ robot_parsers' = DictPut(robot_parsers, robots_domain(urlparse(calls[t].url)), fail_open)
          /\ read_errors' = read_errors \cup {robots_domain(urlparse(calls[t].url))}
    /\ calls' = [calls EXCEPT ![t].pc = "check"]

\* get_html: "if not self.is_allowed_by_robots(url): return None", with the
\* parser that self.robot_parsers[domain] holds now
CheckRobots(t) ==
    /\ calls[t].pc = "check"
    /\ calls' = [calls EXCEPT ![t] =
                    IF can_fetch(robot_parsers[robots_domain(urlparse(calls[t].url))], calls[t].url)
                    THEN InCall(calls[t].url, "fetch")
                    ELSE Returned_html(calls[t].url, None, "robots")]
    /\ UNCHANGED <<robot_parsers, read_errors>>

\* _get_html_static: response.text, or None after any exception (connection
\* error, timeout, raise_for_status)
FetchPage(t) ==
    /\ calls[t].pc = "fetch"
    /\ \/ calls' = [calls EXCEPT ![t] =
                      Returned_html(calls[t].url, Html(calls[t].url, "text"), "fetched")]
       \/ calls' = [calls EXCEPT ![t] = Returned_html(calls[t].url, None, "error")]
    /\ UNCHANGED <<robot_parsers, read_errors>>

\* a new WebsiteScraper: self.robot_parsers = {}
RobotsInit ==
    /\ robot_parsers = <<>>
    /\ read_errors = {}
    /\ calls = [t \in Threads |-> Idle]

\* ------------------------------------------------------------- dynamic mode: the shared browser
VARIABLES
    driver,          \* the page the browser self.driver has loaded (<<>>: none yet)
    renders          \* per thread: the _get_html_dynamic call it is in

driverVars == <<driver, renders>>

\* the worker is in no other call for the URL: a batch holds no URL twice and
\* a visited URL is not submitted again
NotInFlight(t, url) ==
    \A o \in Threads \ {t} : renders[o].pc \in {"idle", "returned"} \/ renders[o].url # url

\* self.driver.page_source: the source of the page the browser holds now
page_source == driver

\* a worker thread is handed get_html(url) in dynamic mode, robots allowing
CallDynamic(t) ==
    /\ renders[t].pc \in {"idle", "returned"}
    /\ \E url \in FetchURLs :
          /\ NotInFlight(t, url)
          /\ renders' = [renders EXCEPT ![t] = InCall(url, "get")]
    /\ UNCHANGED driver

\* _get_html_dynamic: self.driver.get(url) loads the page into the shared
\* browser, or raises (page-load timeout, browser error) and None is returned
DriverGet(t) ==
    /\ renders[t].pc = "get"
    /\ \/ /\ driver' = renders[t].url
          /\ renders' = [renders EXCEPT ![t].pc = "sleep"]
       \/ /\ driver' \in {driver, renders[t].url}
          /\ renders' = [renders EXCEPT ![t] = Returned_html(renders[t].url, None, "error")]

\* _get_html_dynamic: after time.sleep(1), "return self.driver.page_source",
\* or None when reading the source raises
PageSource(t) ==
    /\ renders[t].pc = "sleep"
    /\ \/ renders' = [renders EXCEPT ![t] =
                        Returned_html(renders[t].url, Html(page_source, "text"), "fetched")]
       \/ renders' = [renders EXCEPT ![t] = Returned_html(renders[t].url, None, "error")]
    /\ UNCHANGED driver

\* _setup_driver has created the browser and no worker is fetching
DriverInit ==
    /\ driver = <<>>
    /\ renders = [t \in Threads |-> Idle]

\* ------------------------------------------------------------- specifications
vars == <<crawlVars, uploadVars, downloadVars, urlVars, robotVars, driverVars>>

\* the variables an action of one part leaves alone
notCrawlVars == <<uploadVars, downloadVars, urlVars, robotVars, driverVars>>
notUploadVars == <<crawlVars, downloadVars, urlVars, robotVars, driverVars>>
notDownloadVars == <<crawlVars, uploadVars, urlVars, robotVars, driverVars>>
notUrlVars == <<crawlVars, uploadVars, downloadVars, robotVars, driverVars>>
notRobotVars == <<crawlVars, uploadVars, downloadVars, urlVars, driverVars>>
notDriverVars == <<crawlVars, uploadVars, downloadVars, urlVars, robotVars>>

\* the uploader is not running
UploadOff == UploadStart([p \in Procs |-> 0]) /\ all_files = <<MdFile, PdfFile>> /\ histFile = Absent

\* the crawler is not running
CrawlOff ==
    /\ pc = "off"
    /\ max_workers = 1
    /\ max_pages = 0
    /\ start_url = <<>>
    /\ visited_urls = {}
    /\ to_visit = <<>>
    /\ pages_results = <<>>
    /\ all_file_urls = {}
    /\ batch = <<>>
    /\ bi = 1
    /\ futures = <<>>
    /\ zi = 0
    /\ fetch_log = <<>>

\* one crawl job
Init == RobotsInit /\ DriverInit /\ CrawlInit /\ UploadOff /\ DownloadOff /\ UrlOff
Next ==
    \/ StartJob /\ UNCHANGED notCrawlVars
    \/ TakeBatch /\ UNCHANGED notCrawlVars
    \/ Dispatch /\ UNCHANGED notCrawlVars
    \/ FetchDone /\ UNCHANGED notCrawlVars
    \/ Collect /\ UNCHANGED notCrawlVars
    \/ JoinPool /\ UNCHANGED notCrawlVars
Spec == Init /\ [][Next]_vars

\* a step of scrape_website once it has been called
Run ==
    \/ TakeBatch /\ UNCHANGED notCrawlVars
    \/ Dispatch /\ UNCHANGED notCrawlVars
    \/ FetchDone /\ UNCHANGED notCrawlVars
    \/ Collect /\ UNCHANGED notCrawlVars
    \/ JoinPool /\ UNCHANGED notCrawlVars

\* one crawl job whose threads keep running: once scrape_website is called
\* the main thread takes its next step, and every get_html call handed to a
\* worker returns
FairSpec == Init /\ [][Next]_vars /\ WF_vars(Run)

\* a step of one uploader process
UploadNext ==
    \E p \in Procs :
        \/ StartUpload(p) /\ UNCHANGED notUploadVars
        \/ StartRetry(p) /\ UNCHANGED notUploadVars
        \/ TaskStart(p) /\ UNCHANGED notUploadVars
        \/ Respond(p) /\ UNCHANGED notUploadVars
        \/ UpdOpen(p) /\ UNCHANGED notUploadVars
        \/ UpdWrite(p) /\ UNCHANGED notUploadVars
        \/ UpdClose(p) /\ UNCHANGED notUploadVars
        \/ Report(p) /\ UNCHANGED notUploadVars
        \/ SaveOpen(p) /\ UNCHANGED notUploadVars
        \/ SaveLock(p) /\ UNCHANGED notUploadVars
        \/ SaveDump(p) /\ UNCHANGED notUploadVars
        \/ SaveClose(p) /\ UNCHANGED notUploadVars

\* one process performing up to MaxRuns upload and retry runs, one after another
SoloInit == RobotsInit /\ DriverInit /\ CrawlOff /\ DownloadOff /\ UrlOff /\ UploadStart([p \in Procs |-> IF p = "p1" THEN MaxRuns ELSE 0])
SoloSpec == SoloInit /\ [][UploadNext]_vars

\* two processes, each performing one run, at the same time
DuoInit == RobotsInit /\ DriverInit /\ CrawlOff /\ DownloadOff /\ UrlOff /\ UploadStart([p \in Procs |-> 1])
DuoSpec == DuoInit /\ [][UploadNext]_vars

\* one crawl job over the example site, every fetch succeeding
ExampleNext ==
    \/ StartJob /\ UNCHANGED notCrawlVars
    \/ TakeBatch /\ UNCHANGED notCrawlVars
    \/ Dispatch /\ UNCHANGED notCrawlVars
    \/ FetchOk /\ UNCHANGED notCrawlVars
    \/ ExampleCollect /\ UNCHANGED notCrawlVars
    \/ JoinPool /\ UNCHANGED notCrawlVars
ExampleStart == RobotsInit /\ DriverInit /\ ExampleInit /\ UploadOff /\ DownloadOff /\ UrlOff
ExampleSpec == ExampleStart /\ [][ExampleNext]_vars

\* main about to call save_upload_history with any history, over any history
\* file, and then to run once more (which loads what was saved)
RoundTripInit ==
    /\ RobotsInit
    /\ DriverInit
    /\ CrawlOff
    /\ DownloadOff /\ UrlOff
    /\ all_files \in {<<MdFile, PdfFile>>, <<MdFile, PngFile>>}
    /\ histFile \in {Absent, Malformed, HistoryJson(<<MdFile, PdfFile, PngFile>>)}
    /\ failedLog = Absent
    /\ retryLog = Absent
    /\ lock = "free"
    /\ runs_left = [p \in Procs |-> IF p = "p1" THEN 1 ELSE 0]
    /\ ppc = [p \in Procs |-> IF p = "p1" THEN "save_open" ELSE "idle"]
    /\ kind = [p \in Procs |-> "upload"]
    /\ history \in [Procs -> SeqsUpTo({MdFile, PdfFile, PngFile}, MaxHistory)]
    /\ history["p2"] = <<>>
    /\ already_uploaded = [p \in Procs |-> {}]
    /\ todo = [p \in Procs |-> <<>>]
    /\ tasks = [p \in Procs |-> [a \in Artifacts |-> NoTask]]
    /\ sem = [p \in Procs |-> CONCURRENT_UPLOADS]
    /\ buf = [p \in Procs |-> NoBuffer]
    /\ missing = {}
RoundTripSpec == RoundTripInit /\ [][UploadNext]_vars

\* the download block of one crawl job
DownloadNext ==
    \/ StartDownloads /\ UNCHANGED notDownloadVars
    \/ Submit /\ UNCHANGED notDownloadVars
    \/ DlCheck /\ UNCHANGED notDownloadVars
    \/ DlWrite /\ UNCHANGED notDownloadVars
    \/ DlCollect /\ UNCHANGED notDownloadVars
    \/ DlJoin /\ UNCHANGED notDownloadVars
DownloadStart == RobotsInit /\ DriverInit /\ DownloadInit /\ UploadOff /\ UrlOff
DownloadSpec == DownloadStart /\ [][DownloadNext]_vars

\* calls of the URL functions of url_processor on one URL
UrlNext ==
    \/ Normalize /\ UNCHANGED notUrlVars
    \/ NormalizeAgain /\ UNCHANGED notUrlVars
    \/ Classify /\ UNCHANGED notUrlVars
UrlStart == RobotsInit /\ DriverInit /\ UrlInit /\ CrawlOff /\ UploadOff /\ DownloadOff
UrlSpec == UrlStart /\ [][UrlNext]_vars

\* the failure entries an upload run logs when every file of `files` failed
AllFailed(files) ==
    [i \in 1..Len(files) |-> ErrorFailure(files[i], "Cannot connect to host")]

\* one run, upload or retry, over more files than the semaphore has slots
ManyInit ==
    /\ RobotsInit
    /\ DriverInit
    /\ CrawlOff
    /\ DownloadOff
    /\ UrlOff
    /\ all_files = ManyFiles
    /\ histFile \in {Absent, HistoryJson(<<>>)}
    /\ failedLog = LogJson(AllFailed(ManyFiles))
    /\ retryLog = Absent
    /\ lock = "free"
    /\ runs_left = [p \in Procs |-> IF p = "p1" THEN 1 ELSE 0]
    /\ ppc = [p \in Procs |-> "idle"]
    /\ kind = [p \in Procs |-> "upload"]
    /\ history = [p \in Procs |-> <<>>]
    /\ already_uploaded = [p \in Procs |-> {}]
    /\ todo = [p \in Procs |-> <<>>]
    /\ tasks = [p \in Procs |-> [a \in Artifacts |-> NoTask]]
    /\ sem = [p \in Procs |-> CONCURRENT_UPLOADS]
    /\ buf = [p \in Procs |-> NoBuffer]
    /\ missing = {}
ManySpec == ManyInit /\ [][UploadNext]_vars

\* the worker threads of one WebsiteScraper calling get_html
RobotsNext ==
    \E t \in Threads :
        \/ CallGetHtml(t) /\ UNCHANGED notRobotVars
        \/ Lookup(t) /\ UNCHANGED notRobotVars
        \/ ReadRobots(t) /\ UNCHANGED notRobotVars
        \/ CheckRobots(t) /\ UNCHANGED notRobotVars
        \/ FetchPage(t) /\ UNCHANGED notRobotVars
RobotsStart == RobotsInit /\ DriverInit /\ CrawlOff /\ UploadOff /\ DownloadOff /\ UrlOff
RobotsSpec == RobotsStart /\ [][RobotsNext]_vars

\* the worker threads of one WebsiteScraper in dynamic mode
DynamicNext ==
    \E t \in Threads :
        \/ CallDynamic(t) /\ UNCHANGED notDriverVars
        \/ DriverGet(t) /\ UNCHANGED notDriverVars
        \/ PageSource(t) /\ UNCHANGED notDriverVars
DynamicStart == RobotsInit /\ DriverInit /\ CrawlOff /\ UploadOff /\ DownloadOff /\ UrlOff
DynamicSpec == DynamicStart /\ [][DynamicNext]_vars

\* ------------------------------------------------------------- the crawl's claims
\* C1: with max_pages = N > 0 the Page Result never holds more than N entries,
\* for every worker count, link graph and completion order
C1_PageCap == max_pages > 0 => Cardinality(DOMAIN pages_results) <= max_pages

\* the cap is met while a fetched page of the batch still waits to be collected
C1_CapMetMidBatch ==
    /\ max_pages > 0
    /\ Cardinality(DOMAIN pages_results) = max_pages
    /\ \E i \in 1..Len(futures) :
           futures[i].state = "done" /\ ~futures[i].yielded /\ Truthy(futures[i].result)

\* C2: every entry (u, c) of the Page Result holds the content that the fetch
\* dispatched for u returned, for every completion order and every mix of
\* succeeding and failing fetches in a batch
C2_OwnContent == \A u \in DOMAIN pages_results : pages_results[u].src = u

\* C3: within one call of scrape_website no URL is submitted to get_html more
\* than once, whatever links the fetched pages hold
C3_NoRefetch == \A i, j \in 1..Len(fetch_log) : fetch_log[i] = fetch_log[j] => i = j

\* three fetches were dispatched and two pages, linking back to visited ones, collected
C3_ManyFetches ==
    /\ Len(fetch_log) >= 3
    /\ Cardinality(DOMAIN pages_results) >= 2
    /\ \E i \in 1..Len(fetch_log) : fetch_log[i] \notin Range(to_visit)

\* ------------------------------------------------------------- the upload's claims
\* C4: an artifact whose identity is in the Upload History is never posted to
\* the endpoint again by a later run, be it an upload run or a retry run
C4_NoResubmission ==
    [][\A p \in Procs : \A a \in Artifacts :
          (tasks[p][a].st # "posting" /\ tasks'[p][a].st = "posting")
              => a \notin IdsOf(histFile)]_vars

\* C5: within one upload run, once all submissions have completed, every
\* artifact whose submission succeeded is in the persisted Upload History
C5_AllSuccessesPersisted ==
    \A p \in Procs :
        (/\ kind[p] = "upload"
         /\ todo[p] # <<>>
         /\ \A a \in Range(todo[p]) : tasks[p][a].st = "done")
        => \A a \in Range(todo[p]) :
               tasks[p][a].result.status = "success" => a \in IdsOf(histFile)

\* C6: with two upload processes on one history file, an identity recorded by
\* one process is never removed by a write of the other, the end-of-run save
\* included: when both have finished, the file holds the successes of both
C6_NothingRemoved ==
    (\A p \in Procs : ppc[p] = "done" /\ runs_left[p] = 0)
    => \A p \in Procs : \A a \in Range(todo[p]) :
           (kind[p] = "upload" /\ tasks[p][a].result.status = "success")
               => a \in IdsOf(histFile)

\* C7: when upload_file returns success for a, a is already in the persisted
\* Upload History (before the end-of-run save), also on a first run without a
\* history file and with a malformed history file
C7_RecordedBeforeReturn ==
    \A p \in Procs : \A a \in Range(todo[p]) :
        (/\ kind[p] = "upload"
         /\ ppc[p] = "gather"
         /\ tasks[p][a].result.status = "success")
        => a \in IdsOf(histFile)

\* C8: a process that loads the Upload History without the lock while another
\* process is writing it (update_upload_history or save_upload_history) reads a
\* complete valid record, never an empty, truncated or mixed file
C8_ValidSnapshot ==
    [][\A p \in Procs :
          (/\ runs_left'[p] < runs_left[p]
           /\ kind'[p] = "upload"
           /\ \E q \in Procs \ {p} :
                  \/ ppc[q] \in {"save_lock", "save_dump", "save_close"}
                  \/ \E a \in Range(todo[q]) : tasks[q][a].st = "upd_close")
          => histFile.kind = "json"]_vars

\* C9: a submission that fails leaves the Upload History as it is and its
\* artifact is not in the history the run saves; a run in which every submission
\* fails leaves the history with the identities it had before the run
C9_FailureLeavesHistory ==
    [][\A p \in Procs :
          /\ (\E a \in Artifacts : /\ tasks[p][a].result.status # "failed"
                                    /\ tasks'[p][a].result.status = "failed")
                 => histFile' = histFile
          /\ (kind[p] = "retry" /\ ppc[p] = "gather") => histFile' = histFile
          /\ (kind[p] = "upload" /\ ppc[p] = "save_close" /\ ppc'[p] = "done")
                 => /\ \A a \in Range(todo[p]) :
                          tasks[p][a].result.status = "failed" => a \notin IdsOf(histFile')
                    /\ (\A a \in Range(todo[p]) : tasks[p][a].result.status # "success")
                          => IdsOf(histFile') = already_uploaded[p]]_vars

\* an upload run over a non-empty history has ended with every submission failed
C9_AllFailedRun ==
    \E p \in Procs :
        /\ kind[p] = "upload"
        /\ ppc[p] = "done"
        /\ todo[p] # <<>>
        /\ \A a \in Range(todo[p]) : tasks[p][a].result.status = "failed"
        /\ already_uploaded[p] # {}
        /\ IdsOf(histFile) = already_uploaded[p]

\* C10: a submission is a Success exactly when the status is in the 2xx range;
\* every other status s gives a Failure with reason "API Error: s" and the raw
\* response body
C10_SuccessIff2xx ==
    \A p \in Procs : \A a \in Range(todo[p]) :
        LET r == tasks[p][a].result
        IN (r.status = "failed" /\ "response" \in DOMAIN r) => r.reason[2] \notin 200..299

\* C11: after a submission run completes, the Failure Record the next retry
\* reads (failed_uploads.json) holds exactly the artifacts that failed in that
\* run, also when none failed: no entry of an earlier run survives
C11_FreshFailureRecord ==
    \A p \in Procs :
        (ppc[p] \in {"save_open", "save_lock", "save_dump", "save_close", "done"} /\ todo[p] # <<>>)
        => IF ResultsWith(p, "failed") = <<>>
           THEN failedLog.kind = "json" => failedLog.entries = <<>>
           ELSE failedLog = LogJson(ResultsWith(p, "failed"))

\* C12: once a retry run has submitted a successfully, the next retry run (no
\* upload run in between) does not submit a again: a is absent from the
\* Failure Record it consumes
C12_RetriedOnce ==
    [][\A p \in Procs : \A a \in Artifacts :
          (/\ kind[p] = "retry"
           /\ ppc[p] = "done"
           /\ tasks[p][a].result.status = "success"
           /\ kind'[p] = "retry"
           /\ runs_left'[p] < runs_left[p])
          => a \notin Range(todo'[p])]_vars

\* C13: in a retry run an entry whose local file no longer exists gives a
\* failure with reason "File no longer exists" without a network call: its task
\* takes no semaphore slot and never posts
C13_GoneFileNotPosted ==
    [][\A p \in Procs : \A a \in Range(todo'[p]) :
          (kind'[p] = "retry" /\ a \in missing')
          => /\ tasks'[p][a].st \in {"new", "done"}
             /\ (tasks[p][a].st = "new" /\ tasks'[p][a].st = "done")
                   => (tasks'[p][a].result = FileGone(a) /\ sem'[p] = sem[p])]_vars

\* a retry run has ended in which one file was gone and another was posted
C13_GoneFileRetried ==
    \E p \in Procs : \E a, b \in Range(todo[p]) :
        /\ kind[p] = "retry"
        /\ ppc[p] = "done"
        /\ a \in missing
        /\ tasks[p][a].result.reason = "File no longer exists"
        /\ b \notin missing
        /\ tasks[p][b].result.status = "success"

\* C14: a malformed Upload History (json.load raises JSONDecodeError) does not
\* abort an upload run: the run goes on as with an empty history, submitting
\* every file, and the history it saves at its end is a valid record
C14_MalformedHistoryRecovered ==
    [][\A p \in Procs :
          /\ (/\ histFile.kind = "malformed"
              /\ kind'[p] = "upload"
              /\ runs_left'[p] < runs_left[p])
             => (ppc'[p] = "gather" /\ history'[p] = <<>> /\ todo'[p] = all_files)
          /\ (kind[p] = "upload" /\ ppc[p] = "save_close" /\ ppc'[p] = "done")
             => histFile' = HistoryJson(history[p])]_vars

\* an upload run over a malformed history goes on after a successful submission
C14_RunOverMalformed ==
    \E p \in Procs : \E a \in Range(todo[p]) :
        /\ kind[p] = "upload"
        /\ ppc[p] = "gather"
        /\ histFile.kind = "malformed"
        /\ tasks[p][a].result.status = "success"

\* C15: writing a history with save_upload_history and reading it back with
\* load_upload_history gives the same list of identities, for every history
C15_RoundTrip ==
    [][\A p \in Procs :
          /\ (kind[p] = "upload" /\ ppc[p] = "save_close" /\ ppc'[p] = "done")
             => load_upload_history(histFile') = history[p]
          /\ (/\ kind[p] = "upload" /\ ppc[p] = "done"
              /\ histFile = HistoryJson(history[p])
              /\ kind'[p] = "upload" /\ runs_left'[p] < runs_left[p])
             => history'[p] = history[p]]_vars

\* a history with a repeated identity was saved over a longer record and loaded
C15_SavedAndLoaded ==
    /\ runs_left["p1"] = 0
    /\ kind["p1"] = "upload"
    /\ ppc["p1"] = "gather"
    /\ history["p1"] = <<PngFile, PngFile>>
    /\ already_uploaded["p1"] = {PngFile}

\* C16: with max_pages = 0 scrape_website leaves its crawl loop only with an
\* empty frontier: every URL that was added to to_visit has been dequeued
C16_UnlimitedUntilExhausted ==
    (max_pages = 0 /\ pc \in {"join", "done"}) => to_visit = <<>>

\* an unlimited crawl has ended after three fetches
C16_UnlimitedCrawlEnded ==
    max_pages = 0 /\ pc = "done" /\ Len(fetch_log) >= 3 /\ pages_results # <<>>

\* C17: Scenario A: the start page https://example.test/ links to /about and
\* /report.pdf; with max_pages = 0 and every fetch succeeding the crawl ends with
\* the Page Result keys {https://example.test/, https://example.test/about} and
\* the File Candidates {https://example.test/report.pdf}
C17_ScenarioA ==
    (max_pages = 0 /\ pc = "done")
    => /\ DOMAIN pages_results = {ExampleRoot, ExampleAbout}
       /\ all_file_urls = {ExampleReport}

\* the unlimited crawl of the example site has ended, run with two workers
C17_ScenarioAEnded ==
    max_pages = 0 /\ pc = "done" /\ max_workers = 2 /\ Len(fetch_log) = 2

\* C18: Scenario B: with max_pages = 1 and two discoverable pages whose fetches
\* succeed the crawl ends with exactly one Page Result entry, because the page
\* limit was reached (the frontier is not exhausted), for every worker count
C18_ScenarioB ==
    (max_pages = 1 /\ pc \in {"join", "done"})
    => /\ Cardinality(DOMAIN pages_results) = 1
       /\ to_visit # <<>>

\* the capped crawl of the example site has ended, run with two workers
C18_ScenarioBEnded ==
    max_pages = 1 /\ pc = "done" /\ max_workers = 2 /\ to_visit = <<ExampleAbout>>

\* C19: a URL whose fetch failed (get_html returned None) is left without a
\* Page Result entry, and the crawl goes on with the other URLs
C19_FailedFetchNoEntry ==
    \A i \in 1..Len(futures) :
        (futures[i].state = "done" /\ futures[i].result = None)
        => futures[i].url \notin DOMAIN pages_results

\* C20: when the job is over, two downloads of distinct URLs that derived the
\* same filename and both succeeded have distinct local paths, and each path
\* holds the bytes of its own URL
C20_CollisionSafe ==
    dpc = "done"
    => \A i, j \in 1..Len(dl_futures) :
         (/\ i # j
          /\ dl_futures[i].result.success
          /\ dl_futures[j].result.success
          /\ dl_futures[i].filename = dl_futures[j].filename)
         => /\ dl_futures[i].result.file_path # dl_futures[j].result.file_path
            /\ disk[dl_futures[i].result.file_path] = dl_futures[i].url

\* C21: normalize_url is idempotent: for a URL with a scheme and a network
\* location, normalizing the normalized URL returns it unchanged
C21_NormalizeIdempotent ==
    (normalized_twice.called /\ validate_url(given_url))
    => normalized_twice.value = normalized_once.value

\* the recognised extensions as the given URLs spell them, in either case
SpelledExtensions == document_extensions \cup {<<".", "P", "D", "F">>}

\* the path of the given URL ends in a recognised document extension
PathEndsInExtension == \E ext \in SpelledExtensions : EndsWith(urlparse(given_url).path, ext)

\* C22: a URL whose path ends in a recognised document extension is
\* classified as a downloadable file, with or without a query string and
\* whatever the letter case of the extension
C22_ExtensionIsFile ==
    (classified.called /\ PathEndsInExtension) => classified.value

C22_UpperCaseWithQuery ==
    /\ classified.called
    /\ classified.value
    /\ given_url = <<"h", "t", "t", "p", ":", "/", "/", "e", "x", ".", "t", "/", "r", ".", "P", "D", "F", "?", "q">>

\* C23: a URL (with scheme and network location) whose path does not end in
\* a document extension is classified as a file only if a document extension
\* occurs somewhere in the URL
C23_KeywordNeedsExtension ==
    (classified.called /\ classified.value /\ validate_url(given_url) /\ ~PathEndsInExtension)
    => \E ext \in document_extensions : Contains(lower(given_url), ext)

\* the submissions of p between acquiring and releasing the semaphore
InFlight(p) ==
    {a \in Artifacts : tasks[p][a].st \in {"posting", "upd_open", "upd_locked", "upd_close"}}

\* C24: at every moment of a run, upload or retry, at most CONCURRENT_UPLOADS
\* submissions are between acquiring and releasing the semaphore
C24_BoundedInFlight == \A p \in Procs : Cardinality(InFlight(p)) <= CONCURRENT_UPLOADS

C24_SlotAwaited ==
    /\ Cardinality(InFlight("p1")) = CONCURRENT_UPLOADS
    /\ \E a \in Artifacts : tasks["p1"][a].st = "waiting"

\* C25: once parser.read() has raised for a domain, the parser cached for
\* that domain allows every URL, from then on
C25_FailOpenForLife ==
    \A domain \in read_errors :
        \A url \in FetchURLs : can_fetch(robot_parsers[domain], url)

\* C26: get_html's result for a robots-disallowed URL differs from its
\* result for a failed fetch
C26_SkipDistinctFromFailure ==
    \A t, u \in Threads :
        (calls[t].why = "robots" /\ calls[u].why = "error")
        => calls[t].result # calls[u].result

\* C27: when the job is over, every entry (u, p) of downloaded_files holds
\* the path that the download of u returned, and a URL whose download failed
\* has no entry
C27_OwnPath ==
    dpc = "done"
    => \A u \in DOMAIN downloaded_files :
         \E i \in 1..Len(dl_futures) :
             /\ dl_futures[i].url = u
             /\ dl_futures[i].result = Saved(downloaded_files[u])

\* C28: after a retry run in which artifact a was submitted successfully, a
\* is in the persisted Upload History
C28_RetrySuccessRecorded ==
    \A p \in Procs : \A a \in Range(todo[p]) :
        (kind[p] = "retry" /\ ppc[p] = "done" /\ tasks[p][a].result.status = "success")
        => a \in IdsOf(histFile)

\* the paths listed in the Failure Record on disk
Listed == IF failedLog.kind = "json"
          THEN {failedLog.entries[i].file_path : i \in 1..Len(failedLog.entries)}
          ELSE {}

\* C29: a retry run posts only artifacts listed in the Failure Record it
\* read, each at most once (a task that has its result never posts again), and
\* no step of the retry run changes the Failure Record
C29_RetryReadsOnly ==
    [][\A p \in Procs :
          (kind'[p] = "retry" /\ (ppc'[p] # ppc[p] \/ tasks'[p] # tasks[p]))
          => /\ failedLog' = failedLog
             /\ \A a \in Artifacts :
                  (tasks[p][a].st # "posting" /\ tasks'[p][a].st = "posting")
                  => /\ a \in Listed
                     /\ tasks[p][a].st \in {"new", "waiting"}]_vars

C29_RetryLoggedItsFailures ==
    \E p \in Procs :
        /\ kind[p] = "retry"
        /\ ppc[p] = "done"
        /\ retryLog.kind = "json"
        /\ failedLog.kind = "json"
        /\ retryLog.entries # failedLog.entries
        /\ \E a \in Range(todo[p]) : tasks[p][a].result.status = "success"

\* C30: an error raised while an artifact is submitted becomes that
\* artifact's result, with status "failed" and the error's text as reason, and
\* touches no other task and not the run; when upload_files returns, every
\* artifact it was given has one result among success, failed and skipped
C30_ErrorsBecomeResults ==
    [][\A p \in Procs :
          kind[p] = "upload"
          => /\ \A a \in Range(todo[p]) :
                  (/\ tasks[p][a].st = "posting"
                   /\ tasks'[p][a].st = "done"
                   /\ "response" \notin DOMAIN tasks'[p][a].result)
                  => /\ tasks'[p][a].result.status = "failed"
                     /\ tasks'[p][a].result.reason \in TransportErrors
                     /\ tasks'[p][a].result.file_path = a
                     /\ \A b \in Artifacts \ {a} : tasks'[p][b] = tasks[p][b]
                     /\ ppc'[p] = ppc[p]
             /\ (ppc[p] = "gather" /\ ppc'[p] # "gather")
                  => \A a \in Range(todo[p]) :
                       /\ tasks[p][a].st = "done"
                       /\ tasks[p][a].result.status \in {"success", "failed", "skipped"}]_vars

C30_RunWithErrorEnded ==
    \E p \in Procs :
        /\ kind[p] = "upload"
        /\ ppc[p] = "done"
        /\ \E a, b \in Range(todo[p]) :
             /\ tasks[p][a].result.status = "failed"
             /\ "response" \notin DOMAIN tasks[p][a].result
             /\ tasks[p][b].result.status = "success"

\* C31: once the number of collected pages meets the cap, no step of the
\* crawl changes Page Result, the frontier or the File Candidate set: what the
\* rest of the batch in flight fetched is discarded
C31_NothingAfterCap ==
    [][(max_pages > 0 /\ Cardinality(DOMAIN pages_results) >= max_pages)
       => /\ pages_results' = pages_results
          /\ to_visit' = to_visit
          /\ all_file_urls' = all_file_urls]_vars

C31_RemainderDiscarded ==
    /\ pc = "done"
    /\ max_pages > 0
    /\ Cardinality(DOMAIN pages_results) = max_pages
    /\ \E i \in 1..Len(futures) : ~futures[i].yielded /\ Truthy(futures[i].result)

\* the URLs the job holds in the frontier (the batch taken from it included),
\* the Visited Set, Page Result and the File Candidate set
JobURLs ==
    Range(to_visit) \cup Range(batch) \cup visited_urls \cup DOMAIN pages_results
    \cup all_file_urls

\* C32: every URL in the frontier, the Visited Set, Page Result or the File
\* Candidate set has the host of the job's start URL
C32_SameHost ==
    \A u \in JobURLs : urlparse(u).netloc = urlparse(start_url).netloc

C32_AllSetsFilled ==
    /\ to_visit # <<>>
    /\ visited_urls # {}
    /\ pages_results # <<>>
    /\ all_file_urls # {}

\* C33: every URL in the File Candidate set is in normalized form: no query
\* string, no fragment, no trailing slash
C33_CandidatesNormalized ==
    \A u \in all_file_urls :
        /\ "?" \notin Range(u)
        /\ "#" \notin Range(u)
        /\ normalize_url(u) = u

\* C34: the Visited Set is empty when the job starts, only grows, takes in
\* nothing but URLs of the batch dequeued last, and at every batch boundary
\* holds every URL of that batch: it is the set of the URLs dequeued so far
C34_VisitedIsDequeued ==
    [][/\ pc = "start" => visited_urls' = {}
       /\ pc # "start" => /\ visited_urls \subseteq visited_urls'
                          /\ (visited_urls' \ visited_urls) \subseteq Range(batch)
       /\ pc' = "loop" => Range(batch') \subseteq visited_urls']_vars

C34_SecondBoundary ==
    /\ pc = "loop"
    /\ Cardinality(visited_urls) >= 2
    /\ to_visit # <<>>

\* C35: a robots policy cached for a domain is never replaced (so robots.txt
\* of a domain is read at most once per engine), also while several workers
\* fetch URLs of the domain at the same time
C35_PolicyNeverReplaced ==
    [][\A domain \in DOMAIN robot_parsers :
          /\ domain \in DOMAIN robot_parsers'
          /\ robot_parsers'[domain] = robot_parsers[domain]]_vars

C37_FrontierFresh ==
    /\ pc = "loop" =>
          /\ \A i, j \in 1..Len(to_visit) : to_visit[i] = to_visit[j] => i = j
          /\ Range(to_visit) \cap visited_urls = {}
    /\ (pc = "dispatch" /\ bi <= Len(batch)) => batch[bi] \notin visited_urls
    /\ pc = "collect" => Len(futures) = Len(batch)

C37_FullBatchDispatched ==
    /\ pc = "collect"
    /\ Len(batch) = 2
    /\ Len(futures) = 2
    /\ visited_urls # Range(batch)

\* C38: in dynamic mode the content a worker's fetch of URL u returns is the
\* rendered content of u, also while another worker fetches another URL with
\* the same browser
C38_OwnRenderedContent ==
    \A t \in Threads :
        (renders[t].pc = "returned" /\ renders[t].result # None)
        => renders[t].result.src = renders[t].url

\* C39: a history file that held no identity twice before the runs holds no
\* identity twice after any update_upload_history call and any end-of-run save
C39_NoIdentityTwice ==
    histFile.kind = "json" =>
        \A i, j \in 1..Len(histFile.uploaded_files) :
            histFile.uploaded_files[i] = histFile.uploaded_files[j] => i = j

C39_UpdatedAndSaved ==
    /\ ppc["p1"] = "done"
    /\ kind["p1"] = "upload"
    /\ history["p1"] # <<>>
    /\ ResultPaths("p1", "success") # <<>>
    /\ already_uploaded["p1"] # {}
    /\ histFile = HistoryJson(history["p1"])

====
